---- MODULE Spec2Model ----
(***************************************************************************)
(* A model of dem_mosaic (src/asp/Tools/dem_mosaic.cc): the tile           *)
(* compositor DemMosaicView::prerasterize, the mosaic extent and tile      *)
(* partition computed by main, and the option validation of                *)
(* handle_arguments.                                                       *)
(*                                                                         *)
(* Numbers.  The program computes in double precision.  The model computes *)
(* in exact arithmetic on a grid: a pixel or point coordinate x is held as *)
(* the integer Sub*x (all georeferences have spacing 1 and origins on the  *)
(* 1/Sub grid), a sampled value or weight v as VS*v with VS = Sub*Sub      *)
(* (bilinear interpolation at 1/Sub positions yields multiples of 1/VS),   *)
(* an accumulated tile value t as TS*t with TS = VS*VS, and a final tile   *)
(* value as a fraction <<num, den>>.  Floating-point rounding and NaN      *)
(* pixels are outside the model.                                           *)
(***************************************************************************)
EXTENDS Integers, Sequences, FiniteSets, TLC

VARIABLES
    pc,            \* position of the run
    opt,           \* struct Options, as left by the command line
    dem_files,     \* the input rasters: georeference, size, no-data, pixels
    images,        \* main: the vectors images, georefs and nodata_values
    out_georef,    \* main: the mosaic georeference
    cols, rows,    \* main: the mosaic size in pixels
    bbox,          \* prerasterize: the box being rasterized
    dem_iter,      \* loop counter over the sources (main's read loop, prerasterize)
    tile,          \* prerasterize: ImageView<double> tile
    weights,       \* prerasterize: ImageView<double> weights
    contrib,       \* history: per box pixel, the contributions accumulated so far
    oob,           \* history: a read outside the cropped buffer has happened
    opened,        \* main: the raster files opened so far, in order
    log,           \* main: the diagnostics printed so far
    exit_status,   \* main: the process exit status (-1 while running)
    num_tiles_x, num_tiles_y,
    tile_id,       \* main: the tile loop counter
    end_tile,      \* main: the tile loop bound
    written,       \* main: tile id -> the tile box handed to block_write_gdal_image
    pending,       \* block_cache: the blocks of the tile no thread has taken yet
    worker,        \* per thread: the block it rasterizes and its loop counter
    buf,           \* per call of prerasterize: its images tile and weights
    dest,          \* block -> the pixels rasterize has copied to the destination
    block_size,    \* main: the side of the blocks of block_cache (0 before line 611)
    options,       \* process_icebridge_run: the parsed options
    imageFiles,    \* process_icebridge_run: the frame numbers of the sorted files
    frame_i,       \* process_icebridge_run: the loop counter i over the pairs
    taskHandles,   \* process_icebridge_run: the tasks given to the pool, in order
    run_pc,        \* process_icebridge_run: position of the script
    pool,          \* process_icebridge_run: the state of the processing pool
    ready,         \* the tasks (indices in taskHandles) whose result is ready
    notReady,      \* process_icebridge_run: the count of tasks waited on
    task           \* process_icebridge_run: the handles the count has visited

vars == <<pc, opt, dem_files, images, out_georef, cols, rows, bbox, dem_iter, tile,
          weights, contrib, oob, opened, log, exit_status, num_tiles_x,
          num_tiles_y, tile_id, end_tile, written, pending, worker, buf, dest,
          block_size, options, imageFiles, frame_i, taskHandles, run_pc, pool,
          ready, notReady, task>>

\* the state of dem_mosaic's main
mvars == <<pc, opt, dem_files, images, out_georef, cols, rows, bbox, dem_iter,
           tile, weights, contrib, oob, opened, log, exit_status, num_tiles_x,
           num_tiles_y, tile_id, end_tile, written>>

\* the state of process_icebridge_run
rvars == <<options, imageFiles, frame_i, taskHandles, run_pc, pool, ready,
           notReady, task>>

\* the state of the threads that rasterize blocks
bvars == <<pending, worker, buf, dest, block_size>>

----------------------------------------------------------------------------
(* Bounds of the model *)

\* Coordinates are resolved to 1/Sub of a pixel.
Sub == 2
\* Source rasters are at most MaxDim x MaxDim pixels.
MaxDim == 3
\* At most MaxSources rasters are mosaicked by the compositor specification.
MaxSources == 2
\* Each source's origin is displaced from the one before by 0..MaxOff grid
\* steps per axis.
MaxOff == 2
\* The driver specification reads at most MaxFiles rasters,
MaxFiles == 2
\* of at most MaxMainDim x MaxMainDim pixels,
MaxMainDim == 4
\* with a tile size of at most MaxTileSize pixels
MaxTileSize == 3
\* and a tile index of at most MaxTileIndex.
MaxTileIndex == 4

(* Program constants *)

\* BigOrZero: the weight of a valid pixel in draft mode
Big == 100000000
\* BilinearInterpolation::pixel_buffer
pixel_buffer == 1

VS == Sub * Sub
TS == VS * VS

----------------------------------------------------------------------------
(* Arithmetic *)

Min(S) == CHOOSE x \in S : \A y \in S : x <= y
Max(S) == CHOOSE x \in S : \A y \in S : x >= y
Abs(x) == IF x < 0 THEN -x ELSE x

\* floor(x), ceil(x) and round(x) (C: halves away from zero) of x = X/Sub
Floor(X) == X \div Sub
Ceil(X) == -((-X) \div Sub)
Round(X) == IF X >= 0 THEN (2 * X + Sub) \div (2 * Sub)
                      ELSE -((2 * (-X) + Sub) \div (2 * Sub))

RECURSIVE SumSeq(_)
SumSeq(s) == IF s = <<>> THEN 0 ELSE Head(s) + SumSeq(Tail(s))

\* equality of two fractions <<num, den>>, den > 0
RatEq(a, b) == a[1] * b[2] = b[1] * a[2]

----------------------------------------------------------------------------
(* Georeferences: spacing 1, pixel (0,0) at the point (ox, oy), y down *)

pixel_to_point(g, P) == <<g.ox + P[1], g.oy - P[2]>>
point_to_pixel(g, Q) == <<Q[1] - g.ox, g.oy - Q[2]>>

\* BBox2::grow over a set of points
BoxOf(S) == [minx |-> Min({p[1] : p \in S}), miny |-> Min({p[2] : p \in S}),
             maxx |-> Max({p[1] : p \in S}), maxy |-> Max({p[2] : p \in S})]

Corners(b) == {<<b.minx, b.miny>>, <<b.maxx, b.maxy>>,
               <<b.minx, b.maxy>>, <<b.maxx, b.miny>>}

\* GeoReference::pixel_to_point_bbox of an integer pixel box (max exclusive):
\* the box of the points of its corner pixels min and max-1
pixel_to_point_bbox(g, b) ==
    BoxOf({pixel_to_point(g, p) :
             p \in Corners([minx |-> Sub * b.minx, miny |-> Sub * b.miny,
                            maxx |-> Sub * (b.maxx - 1),
                            maxy |-> Sub * (b.maxy - 1)])})

point_to_pixel_bbox_nogrow(g, ptbox) ==
    BoxOf({point_to_pixel(g, q) : q \in Corners(ptbox)})

\* GeoReference::bounding_box(image)
bounding_box(f) ==
    pixel_to_point_bbox(f, [minx |-> 0, miny |-> 0, maxx |-> f.w, maxy |-> f.h])

\* BBox::crop, BBox::empty, BBox::width, BBox::height
BoxCrop(b, c) == [minx |-> IF b.minx < c.minx THEN c.minx ELSE b.minx,
                  miny |-> IF b.miny < c.miny THEN c.miny ELSE b.miny,
                  maxx |-> IF b.maxx > c.maxx THEN c.maxx ELSE b.maxx,
                  maxy |-> IF b.maxy > c.maxy THEN c.maxy ELSE b.maxy]
BoxEmpty(b) == b.minx >= b.maxx \/ b.miny >= b.maxy
BoxWidth(b) == b.maxx - b.minx
BoxHeight(b) == b.maxy - b.miny
BoxPixels(b) == (b.minx .. b.maxx - 1) \X (b.miny .. b.maxy - 1)

\* crop(georef, x, y): pixel (0,0) of the result is pixel (x, y) of georef
GeorefCrop(g, P) == [g EXCEPT !.ox = g.ox + P[1], !.oy = g.oy - P[2]]

----------------------------------------------------------------------------
(* DemMosaicView::prerasterize, per source *)

\* The tile corners as pixels in the source, grown by the context and cropped
\* to the source (integer pixel units, max exclusive)
PixBox(b, f) ==
    LET point_box == pixel_to_point_bbox(out_georef, b)
        pix_box == point_to_pixel_bbox_nogrow(f, point_box)
        grow == opt.erode_len + opt.blending_len + pixel_buffer + 1
        grown == [minx |-> Floor(pix_box.minx) - grow,
                  miny |-> Floor(pix_box.miny) - grow,
                  maxx |-> Ceil(pix_box.maxx) + grow,
                  maxy |-> Ceil(pix_box.maxy) + grow]
    IN  BoxCrop(grown, [minx |-> 0, miny |-> 0, maxx |-> f.w, maxy |-> f.h])

\* the pixels of the cropped buffer dem, and its pixel values
DemPixels(pb) == (0 .. BoxWidth(pb) - 1) \X (0 .. BoxHeight(pb) - 1)
DemV(f, pb, p) == f.pix[<<p[1] + pb.minx, p[2] + pb.miny>>]

\* NotNoDataFunctor (NaN pixels are outside the model)
notnodata_Always(v, nodata) == TRUE

notnodata(v, nodata) == v # nodata

\* BigOrZero
BigOrZero(v, nodata) == IF v # nodata THEN Big ELSE 0

\* vw::grassfire of the valid mask of the cropped buffer: the city-block
\* distance to the nearest invalid pixel, the outside of the buffer being invalid
grassfire(f, pb, p) ==
    IF ~notnodata(DemV(f, pb, p), f.nodata) THEN 0
    ELSE Min({p[1] + 1, BoxWidth(pb) - p[1], p[2] + 1, BoxHeight(pb) - p[2]}
             \cup {Abs(p[1] - q[1]) + Abs(p[2] - q[2]) :
                     q \in {z \in DemPixels(pb) :
                              ~notnodata(DemV(f, pb, z), f.nodata)}})

\* vw::clamp(x, low, high)
clamp(x, low, high) == IF x > high THEN high ELSE IF x < low THEN low ELSE x

Erode_Off(w, max_pixel_value, erode_len) == w

\* the erosion of one weight, given the largest weight of the buffer
Erode(w, max_pixel_value, erode_len) ==
    LET min_cutoff == erode_len
        max_cutoff == IF max_pixel_value <= min_cutoff THEN min_cutoff + 1
                      ELSE max_pixel_value
    IN  clamp(w - min_cutoff, 0, max_cutoff - min_cutoff)

\* local_wts before erosion
RawWts(f, pb) ==
    [p \in DemPixels(pb) |->
       IF opt.draft_mode THEN BigOrZero(DemV(f, pb, p), f.nodata)
       ELSE grassfire(f, pb, p)]

\* local_wts after erosion: the alpha channel of dem
LocalWts(f, pb) ==
    LET raw == RawWts(f, pb)
        max_pixel_value == Max({raw[p] : p \in DemPixels(pb)})
    IN  [p \in DemPixels(pb) |-> Erode(raw[p], max_pixel_value, opt.erode_len)]

\* the value channel of dem
DemVals(f, pb) == [p \in DemPixels(pb) |-> DemV(f, pb, p)]

\* ImageView::operator()(col,row).a(): the pixel at offset col + row*cols of the
\* buffer; an offset past the end of the buffer reads whatever lies there
RawIndex(pb, i, j) == i + j * BoxWidth(pb)
InBuffer(pb, i, j) == RawIndex(pb, i, j) < BoxWidth(pb) * BoxHeight(pb)
RawA(wts, pb, i, j, garbage) ==
    IF InBuffer(pb, i, j)
    THEN wts[<<RawIndex(pb, i, j) % BoxWidth(pb), RawIndex(pb, i, j) \div BoxWidth(pb)>>]
    ELSE garbage

\* ConstantEdgeExtension: the nearest pixel of the buffer
EdgePix(pb, i, j) == <<clamp(i, 0, BoxWidth(pb) - 1), clamp(j, 0, BoxHeight(pb) - 1)>>

\* BilinearInterpolation of a channel ch (a function on DemPixels) at (x, y),
\* scaled by VS
Bilinear(ch, pb, x, y) ==
    LET i == Floor(x)
        j == Floor(y)
        nx == x - Sub * i
        ny == y - Sub * j
    IN  (Sub - nx) * (Sub - ny) * ch[EdgePix(pb, i, j)]
      + nx * (Sub - ny) * ch[EdgePix(pb, i + 1, j)]
      + (Sub - nx) * ny * ch[EdgePix(pb, i, j + 1)]
      + nx * ny * ch[EdgePix(pb, i + 1, j + 1)]

\* the position in the cropped buffer of pixel (c, r) of box b
InPix(b, f, pb, c, r) ==
    LET out_pix == <<Sub * (c + b.minx), Sub * (r + b.miny)>>
        in_pix == point_to_pixel(f, pixel_to_point(out_georef, out_pix))
    IN  <<in_pix[1] - Sub * pb.minx, in_pix[2] - Sub * pb.miny>>

\* fabs(x-i0) < g_tol && fabs(y-j0) < g_tol && i0, j0 within the buffer
OnGrid(pb, x, y) ==
    /\ x % Sub = 0 /\ y % Sub = 0
    /\ Round(x) >= 0 /\ Round(x) <= BoxWidth(pb) - 1
    /\ Round(y) >= 0 /\ Round(y) <= BoxHeight(pb) - 1

\* bool is_good
IsGood(pb, x, y) ==
    /\ x >= 0 /\ x <= Sub * (BoxWidth(pb) - 1)
    /\ y >= 0 /\ y <= Sub * (BoxHeight(pb) - 1)

\* the four weights tested before interpolating, in the order of the test
Neighbours(i, j) == <<<<i, j>>, <<i + 1, j>>, <<i, j + 1>>, <<i + 1, j + 1>>>>

AllPositive(wts, pb, i, j, garbage) ==
    \A k \in 1..4 :
        RawA(wts, pb, Neighbours(i, j)[k][1], Neighbours(i, j)[k][2], garbage) > 0

\* the test reads outside the buffer: a neighbour outside it is reached, the
\* ones tested before it being positive
ReadsOutside(wts, pb, i, j, garbage) ==
    \E k \in 1..4 :
        /\ ~InBuffer(pb, Neighbours(i, j)[k][1], Neighbours(i, j)[k][2])
        /\ \A m \in 1..(k - 1) :
             RawA(wts, pb, Neighbours(i, j)[m][1], Neighbours(i, j)[m][2], garbage) > 0

\* pval of pixel (c, r) of box b: whether the source reaches the accumulation,
\* and the value and weight (scaled by VS) it brings
Sample(b, f, pb, vals, wts, c, r, garbage) ==
    LET xy == InPix(b, f, pb, c, r)
        x == xy[1]
        y == xy[2]
    IN  IF OnGrid(pb, x, y)
        THEN [hit |-> wts[<<Round(x), Round(y)>>] > 0,
              val |-> VS * vals[<<Round(x), Round(y)>>],
              wt |-> VS * wts[<<Round(x), Round(y)>>]]
        ELSE IF ~IsGood(pb, x, y) THEN [hit |-> FALSE, val |-> 0, wt |-> 0]
        ELSE IF ~AllPositive(wts, pb, Floor(x), Floor(y), garbage)
             THEN [hit |-> FALSE, val |-> 0, wt |-> 0]
        ELSE [hit |-> Bilinear(wts, pb, x, y) > 0,
              val |-> Bilinear(vals, pb, x, y),
              wt |-> Bilinear(wts, pb, x, y)]

\* Initialize the tile if not done already (t scaled by TS)
InitTile(t) == IF t = TS * opt.out_nodata_value THEN 0 ELSE t

\* Combine the values, or use just the last value: the new <<tile, weights>>
\* of a pixel (tile scaled by TS, weights by VS)
Combine_FirstWins(t, w, val, wt) ==
    IF ~opt.draft_mode THEN <<InitTile(t) + wt * val, w + wt>>
    ELSE IF w > 0 THEN <<t, w>> ELSE <<VS * val, VS>>

Combine(t, w, val, wt) ==
    IF ~opt.draft_mode THEN <<InitTile(t) + wt * val, w + wt>>
    ELSE <<VS * val, VS>>

\* Divide by the weights: the final value of a pixel as a fraction
Divide_Unguarded(t, w) == <<VS * t[1], t[2] * w>>

Divide(t, w) == IF w > 0 THEN <<VS * t[1], t[2] * w>> ELSE t

----------------------------------------------------------------------------
(* main: the mosaic extent (the images, georeferences and no-data values of *)
(* the sources are the vectors filled by the read loop)                    *)

\* mosaic_bbox: the union of the sources' boxes in projected space
MosaicBBox(imgs) ==
    BoxOf(UNION {Corners(bounding_box(imgs[k])) : k \in 1..Len(imgs)})

\* Set the lower-left corner: a corner within g_tol of an integer pixel is
\* moved onto it
BegPix(g, mosaic_bbox) ==
    LET pixel_box == point_to_pixel_bbox_nogrow(g, mosaic_bbox)
        beg_pix == <<pixel_box.minx, pixel_box.miny>>
    IN  IF beg_pix[1] % Sub = 0 /\ beg_pix[2] % Sub = 0
        THEN <<Sub * Round(beg_pix[1]), Sub * Round(beg_pix[2])>>
        ELSE beg_pix

\* Image size: <<cols, rows>>
ImageSize(g, mosaic_bbox) ==
    LET pixel_box == point_to_pixel_bbox_nogrow(g, mosaic_bbox)
        end_pix == <<pixel_box.maxx, pixel_box.maxy>>
    IN  <<Round(end_pix[1]), Round(end_pix[2])>>

----------------------------------------------------------------------------
(* main: the tile partition *)

\* (int)ceil((double)dim/double(tile_size)), at least 1
NumTiles(dim, tile_size) ==
    LET n == -((-dim) \div tile_size)
    IN  IF n <= 0 THEN 1 ELSE n

\* the column and row of a tile in the grid of tiles
TileIndexY(id, ntx, nty) == id \div nty
TileIndexX_ModX(id, ntx, nty) == id % ntx

TileIndexX(id, ntx, nty) == id - TileIndexY(id, ntx, nty) * nty

\* tile_box, cropped to the mosaic
TileBox(id, ntx, nty, tile_size, c, r) ==
    LET tile_index_y == TileIndexY(id, ntx, nty)
        tile_index_x == TileIndexX(id, ntx, nty)
    IN  BoxCrop([minx |-> tile_index_x * tile_size,
                 miny |-> tile_index_y * tile_size,
                 maxx |-> tile_index_x * tile_size + tile_size,
                 maxy |-> tile_index_y * tile_size + tile_size],
                [minx |-> 0, miny |-> 0, maxx |-> c, maxy |-> r])

----------------------------------------------------------------------------
(* The run *)

\* process_icebridge_run is not running
NoOptions == [startGiven |-> FALSE, stopGiven |-> FALSE, startFrame |-> 0 - 1,
              stopFrame |-> 0 - 1, triView |-> FALSE, interactive |-> FALSE]
NoBox == [minx |-> 0, miny |-> 0, maxx |-> 0, maxy |-> 0]
NoImage == [p \in {} |-> 0]
Say(msg) == log' = Append(log, msg)

\* lines 584-598: the mosaic georeference and size
ComputeExtent ==
    /\ pc = "extent"
    /\ LET mosaic_bbox == MosaicBBox(images)
           g == GeorefCrop(out_georef, BegPix(out_georef, mosaic_bbox))
       IN  /\ out_georef' = g
           /\ cols' = ImageSize(g, mosaic_bbox)[1]
           /\ rows' = ImageSize(g, mosaic_bbox)[2]
    /\ pc' = "partition"
    /\ UNCHANGED <<opt, dem_files, images, bbox, dem_iter, tile, weights, contrib,
                   oob, opened, log, exit_status, num_tiles_x, num_tiles_y,
                   tile_id, end_tile, written>>
    /\ UNCHANGED bvars
    /\ UNCHANGED rvars

\* line 616: the requested tile does not exist
TileIndexOutOfBounds_Strict(tile_index, num_tiles) == tile_index > num_tiles

TileIndexOutOfBounds(tile_index, num_tiles) == tile_index >= num_tiles

\* lines 600-627: the number of tiles, and the tiles to save
PartitionTiles ==
    /\ pc = "partition"
    /\ num_tiles_x' = NumTiles(cols, opt.tile_size)
    /\ num_tiles_y' = NumTiles(rows, opt.tile_size)
    /\ IF TileIndexOutOfBounds(opt.tile_index, num_tiles_x' * num_tiles_y')
       THEN /\ Say("Tile with index is out of bounds")
            /\ exit_status' = 0
            /\ pc' = "done"
            /\ UNCHANGED <<tile_id, end_tile>>
       ELSE /\ tile_id' = (IF opt.tile_index < 0 THEN 0 ELSE opt.tile_index)
            /\ end_tile' = (IF opt.tile_index < 0 THEN num_tiles_x' * num_tiles_y'
                            ELSE opt.tile_index + 1)
            /\ pc' = "tile"
            /\ UNCHANGED <<log, exit_status>>
    /\ UNCHANGED <<opt, dem_files, images, out_georef, cols, rows, bbox, dem_iter,
                   tile, weights, contrib, oob, opened, written>>
    /\ UNCHANGED bvars
    /\ UNCHANGED rvars

\* lines 629-651 and 184-187: the box of the next tile.  An image of width or
\* height 0 is skipped; a box with pixels is rasterized (the blocks of
\* block_cache are at least 256 pixels wide, so a tile of the model is one
\* block), starting from a tile of no-data and weights of 0; a box of negative
\* width or height has no block to rasterize and goes to the writer as it is.
BeginTile ==
    /\ pc = "tile"
    /\ tile_id < end_tile
    /\ LET tile_box == TileBox(tile_id, num_tiles_x, num_tiles_y, opt.tile_size,
                               cols, rows)
       IN  IF BoxWidth(tile_box) = 0 \/ BoxHeight(tile_box) = 0
           THEN /\ Say("Skip writing empty image")
                /\ tile_id' = tile_id + 1
                /\ UNCHANGED <<pc, bbox, dem_iter, tile, weights, contrib>>
           ELSE /\ bbox' = tile_box
                /\ dem_iter' = 0
                /\ tile' = [p \in (0 .. BoxWidth(tile_box) - 1)
                                    \X (0 .. BoxHeight(tile_box) - 1) |->
                              <<TS * opt.out_nodata_value, TS>>]
                /\ weights' = [p \in DOMAIN tile' |-> 0]
                /\ contrib' = [p \in DOMAIN tile' |-> <<>>]
                /\ pc' = (IF BoxEmpty(tile_box) THEN "write" ELSE "sources")
                /\ UNCHANGED <<log, tile_id>>
    /\ UNCHANGED <<opt, dem_files, images, out_georef, cols, rows, oob, opened,
                   exit_status, num_tiles_x, num_tiles_y, end_tile, written>>
    /\ UNCHANGED bvars
    /\ UNCHANGED rvars

\* lines 189-308: one source is accumulated into the tile.  A weight read past
\* the end of the cropped buffer is any number: garbage stands for its sign.
ProcessSource ==
    /\ pc = "sources"
    /\ dem_iter < Len(images)
    /\ LET f == images[dem_iter + 1]
           pb == PixBox(bbox, f)
       IN  IF BoxEmpty(pb)
           THEN UNCHANGED <<tile, weights, contrib, oob>>
           ELSE \E garbage \in {0, 1} :
                \E wts \in {LocalWts(f, pb)}, vals \in {DemVals(f, pb)} :
                \E smp \in {[p \in DOMAIN tile |->
                               Sample(bbox, f, pb, vals, wts, p[1], p[2], garbage)]} :
                \E new \in {[p \in DOMAIN tile |->
                               IF smp[p].hit
                               THEN Combine(tile[p][1], weights[p],
                                            smp[p].val, smp[p].wt)
                               ELSE <<tile[p][1], weights[p]>>]} :
                    /\ tile' = [p \in DOMAIN tile |-> <<new[p][1], TS>>]
                    /\ weights' = [p \in DOMAIN tile |-> new[p][2]]
                    /\ contrib' = [p \in DOMAIN tile |->
                                  IF smp[p].hit
                                  THEN Append(contrib[p],
                                              [src |-> dem_iter + 1,
                                               val |-> smp[p].val,
                                               wt |-> smp[p].wt])
                                  ELSE contrib[p]]
                    /\ oob' = (oob \/ \E p \in DOMAIN tile :
                                 LET xy == InPix(bbox, f, pb, p[1], p[2])
                                 IN  /\ ~OnGrid(pb, xy[1], xy[2])
                                     /\ IsGood(pb, xy[1], xy[2])
                                     /\ ReadsOutside(wts, pb, Floor(xy[1]),
                                                     Floor(xy[2]), garbage))
    /\ dem_iter' = dem_iter + 1
    /\ UNCHANGED <<pc, opt, dem_files, images, out_georef, cols, rows, bbox,
                   opened, log, exit_status, num_tiles_x, num_tiles_y, tile_id,
                   end_tile, written>>
    /\ UNCHANGED bvars
    /\ UNCHANGED rvars

\* lines 310-319: Divide by the weights
Normalize ==
    /\ pc = "sources"
    /\ dem_iter = Len(images)
    /\ tile' = [p \in DOMAIN tile |-> Divide(tile[p], weights[p])]
    /\ pc' = "write"
    /\ UNCHANGED <<opt, dem_files, images, out_georef, cols, rows, bbox, dem_iter,
                   weights, contrib, oob, opened, log, exit_status, num_tiles_x,
                   num_tiles_y, tile_id, end_tile, written>>
    /\ UNCHANGED bvars
    /\ UNCHANGED rvars

\* lines 653-657: the tile is written.  What block_write_gdal_image does with
\* an image of negative size is not decided by this program: it returns or it
\* throws (the standard catches then end the run with status 1).
WriteTile ==
    /\ pc = "write"
    /\ \E thrown \in {FALSE, BoxEmpty(bbox)} :
         /\ log' = log \o (IF thrown THEN <<"Writing", "Error">> ELSE <<"Writing">>)
         /\ written' = written @@ (tile_id :> bbox)
         /\ tile_id' = (IF thrown THEN tile_id ELSE tile_id + 1)
         /\ exit_status' = (IF thrown THEN 1 ELSE exit_status)
         /\ pc' = (IF thrown THEN "error" ELSE "tile")
    /\ UNCHANGED <<opt, dem_files, images, out_georef, cols, rows, bbox, dem_iter,
                   tile, weights, contrib, oob, opened, num_tiles_x,
                   num_tiles_y, end_tile>>
    /\ UNCHANGED bvars
    /\ UNCHANGED rvars

\* line 662: return 0
Finish ==
    /\ pc = "tile"
    /\ tile_id >= end_tile
    /\ exit_status' = 0
    /\ pc' = "done"
    /\ UNCHANGED <<opt, dem_files, images, out_georef, cols, rows, bbox, dem_iter,
                   tile, weights, contrib, oob, opened, log, num_tiles_x,
                   num_tiles_y, tile_id, end_tile, written>>
    /\ UNCHANGED bvars
    /\ UNCHANGED rvars

----------------------------------------------------------------------------
(* handle_arguments and the start of main *)

\* the lowest double, -numeric_limits<RealT>::max(): any number below the data
LowestReal == -1000000

\* Error checking: the message of the first check that fails, "" when none does.
\* nfiles is the number of rasters named (in the list file, or on the command
\* line when no list is given); o.extra says that, beside a list, other
\* arguments were passed.
DraftErodes_Never(o) == FALSE

\* lines 419-421: erosion was asked for in draft mode
DraftErodes(o) == o.draft_mode /\ o.erode_len > 0

ArgError(o, nfiles) ==
    IF o.mpp > 0 /\ o.tr > 0 THEN "Just one of the --mpp and --tr options needs to be set"
    ELSE IF o.out_prefix = "" THEN "No output prefix was specified"
    ELSE IF o.num_threads = 0 THEN "The number of threads must be set and positive"
    ELSE IF o.erode_len < 0 THEN "The erode length must not be negative"
    ELSE IF o.blending_len < 0 THEN "The blending length must not be negative"
    ELSE IF o.tile_size <= 0 THEN "The size of a tile in pixels must be set and positive"
    ELSE IF DraftErodes(o) THEN "Cannot erode pixels in draft mode"
    ELSE IF o.geo_tile_size < 0
         THEN "The size of a tile in georeferenced units must not be negative"
    ELSE IF o.dem_list_file # ""
         THEN IF o.extra THEN "The DEMs were specified via a list. There were extraneous files"
              ELSE IF nfiles = 0 THEN "No DEM files to mosaic" ELSE ""
    ELSE IF nfiles = 0 THEN "No input DEMs were specified" ELSE ""

\* vw_throw, caught by the standard catches of main: the message is printed and
\* main returns 1
Fail(msg) ==
    /\ log' = Append(log, msg)
    /\ exit_status' = 1
    /\ pc' = "error"

\* processed_proj4: the projection string, parsed and written again
processed_proj4(srs) == IF srs = "A " THEN "A" ELSE srs

\* lines 355-467: handle_arguments
HandleArguments ==
    /\ pc = "args"
    /\ IF ArgError(opt, Len(dem_files)) # ""
       THEN /\ Fail(ArgError(opt, Len(dem_files)))
            /\ UNCHANGED opt
       ELSE /\ opt' = [opt EXCEPT !.out_nodata_value =
                         IF opt.has_out_nodata THEN @ ELSE LowestReal]
            /\ pc' = "nodata"
            /\ UNCHANGED <<log, exit_status>>
    /\ UNCHANGED <<dem_files, images, out_georef, cols, rows, bbox, dem_iter, tile,
                   weights, contrib, oob, opened, num_tiles_x, num_tiles_y,
                   tile_id, end_tile, written>>
    /\ UNCHANGED bvars
    /\ UNCHANGED rvars

\* lines 476-481: Read nodata from first DEM, unless the user chooses to specify it
ReadNodata ==
    /\ pc = "nodata"
    /\ IF ~opt.has_out_nodata
       THEN /\ opened' = Append(opened, 1)
            /\ opt' = [opt EXCEPT !.out_nodata_value =
                         IF dem_files[1].has_nodata THEN dem_files[1].nodata ELSE @]
       ELSE UNCHANGED <<opened, opt>>
    /\ pc' = "georef"
    /\ UNCHANGED <<dem_files, images, out_georef, cols, rows, bbox, dem_iter, tile,
                   weights, contrib, oob, log, exit_status, num_tiles_x,
                   num_tiles_y, tile_id, end_tile, written>>
    /\ UNCHANGED bvars
    /\ UNCHANGED rvars

HasGeoref_Always(f) == TRUE

\* read_georef, lines 128-135: bool is_good = read_georeference(geo, file)
HasGeoref(f) == f.georef

\* lines 486-521: Form the mosaic georef; the tile size in pixels
FormGeoref ==
    /\ pc = "georef"
    /\ opened' = Append(opened, 1)
    /\ LET srs == IF opt.target_srs_string # ""
                  THEN processed_proj4(opt.target_srs_string) ELSE ""
           first == dem_files[1]
           spacing == IF opt.tr > 0 THEN opt.tr ELSE 1
       IN  IF ~HasGeoref(first)
           THEN /\ Fail("No georeference found in 1")
                /\ UNCHANGED <<opt, out_georef, dem_iter, images>>
           ELSE IF srs # "" /\ srs # first.proj /\ opt.tr <= 0
           THEN /\ Fail("Changing the projection was requested. The output DEM resolution must be specified")
                /\ UNCHANGED <<opt, out_georef, dem_iter, images>>
           ELSE /\ out_georef' =
                     [proj |-> IF srs # "" THEN srs ELSE first.proj,
                      ox |-> IF opt.tr > 0 THEN 0 ELSE first.ox,
                      oy |-> IF opt.tr > 0 THEN 0 ELSE first.oy]
                /\ opt' = [opt EXCEPT
                     !.target_srs_string = srs,
                     !.tile_size =
                        Max({1, IF opt.geo_tile_size > 0
                                THEN Round((Sub * opt.geo_tile_size) \div spacing)
                                ELSE @})]
                /\ dem_iter' = 0
                /\ images' = <<>>
                /\ pc' = "read"
                /\ UNCHANGED <<log, exit_status>>
    /\ UNCHANGED <<dem_files, cols, rows, bbox, tile, weights, contrib, oob,
                   num_tiles_x, num_tiles_y, tile_id, end_tile, written>>
    /\ UNCHANGED bvars
    /\ UNCHANGED rvars

\* lines 534-574: one source is opened: its no-data value, its georeference
\* (fatal when it has none) and its image.  Every raster of the model has the
\* projection of the mosaic: the reprojection of lines 544-568 is not modelled.
ReadSource ==
    /\ pc = "read"
    /\ dem_iter < Len(dem_files)
    /\ opened' = Append(opened, dem_iter + 1)
    /\ LET f == dem_files[dem_iter + 1]
           curr_nodata_value == IF f.has_nodata THEN f.nodata
                                ELSE opt.out_nodata_value
       IN  IF ~HasGeoref(f)
           THEN /\ Fail("No georeference found in " \o ToString(dem_iter + 1))
                /\ UNCHANGED <<images, dem_iter>>
           ELSE /\ out_georef.proj = f.proj
                /\ images' = Append(images, [f EXCEPT !.nodata = curr_nodata_value])
                /\ dem_iter' = dem_iter + 1
                /\ pc' = (IF dem_iter + 1 = Len(dem_files) THEN "extent" ELSE "read")
                /\ UNCHANGED <<log, exit_status>>
    /\ UNCHANGED <<opt, dem_files, out_georef, cols, rows, bbox, tile, weights,
                   contrib, oob, num_tiles_x, num_tiles_y, tile_id, end_tile,
                   written>>
    /\ UNCHANGED bvars
    /\ UNCHANGED rvars

----------------------------------------------------------------------------
(* Inputs *)

\* --tile-size, default
DefaultTileSize == 1000000
\* the no-data value of the input rasters
SrcNoData == -1
\* a value given with --output-nodata-value
UserNoData == 2

Pixels(w, h) == (0 .. w - 1) \X (0 .. h - 1)

\* a raster of w x h pixels with its first pixel at the point (ox, oy): the
\* pixels of holes are no-data, the others rise from base along the rows
Raster(w, h, holes, base, ox, oy, has_georef) ==
    [georef |-> has_georef, proj |-> "A", ox |-> ox, oy |-> oy, w |-> w, h |-> h,
     has_nodata |-> TRUE, nodata |-> SrcNoData,
     pix |-> [p \in Pixels(w, h) |->
                IF p \in holes THEN SrcNoData ELSE base + p[1] + w * p[2]]]

\* no hole, a hole at the middle pixel, or no data at all
HoleSets(w, h) == {{}, {<<w \div 2, h \div 2>>}, Pixels(w, h)}

\* the strips of n rasters of w x h pixels: the first at the origin, each next
\* one displaced from the one before by the step (dx, dy), right and down (up
\* when dy is negative)
RECURSIVE RasterLists(_, _, _, _, _)
RasterLists(n, w, h, dx, dy) ==
    IF n = 0 THEN {<<>>}
    ELSE {Append(l, Raster(w, h, holes, 10 * (n - 1) + 1,
                           (n - 1) * dx, -((n - 1) * dy), TRUE)) :
            l \in RasterLists(n - 1, w, h, dx, dy), holes \in HoleSets(w, h)}

\* the options of a valid run with the default tile size, all tiles saved
ValidOptions(draft, erode, has_out_nodata) ==
    [mpp |-> 0, tr |-> 0, out_prefix |-> "out", num_threads |-> 1,
     erode_len |-> erode, blending_len |-> 0, tile_size |-> DefaultTileSize,
     draft_mode |-> draft, geo_tile_size |-> 0, dem_list_file |-> "",
     extra |-> FALSE, target_srs_string |-> "", tile_index |-> 0 - 1,
     has_out_nodata |-> has_out_nodata,
     out_nodata_value |-> IF has_out_nodata THEN UserNoData ELSE SrcNoData]

\* The compositor specification starts where main has read its sources
\* (line 574) in a valid run.  The sources lie along a row, a column or a
\* diagonal of the grid, or each a whole pixel to the right of and a grid step
\* above the one before (in blended mode without erosion).  An output no-data
\* value is given in blended mode without erosion only.
Init ==
    \E n \in 1..MaxSources, draft \in BOOLEAN, erode \in 0..1,
       has_out_nodata \in BOOLEAN, w \in 1..MaxDim, h \in 1..MaxDim,
       dx \in 0..MaxOff, dy \in (0 - 1)..MaxOff :
      \E files \in (IF /\ draft => erode = 0
                       /\ has_out_nodata => (~draft /\ erode = 0)
                       /\ \/ dx = 0 \/ dy = 0 \/ dx = dy
                          \/ (dy = 0 - 1 /\ dx = Sub /\ ~draft /\ erode = 0)
                    THEN RasterLists(n, w, h, dx, dy) ELSE {}) :
        /\ opt = ValidOptions(draft, erode, has_out_nodata)
        /\ dem_files = files
        /\ images = files
        /\ out_georef = [proj |-> "A", ox |-> files[1].ox, oy |-> files[1].oy]
        /\ dem_iter = n
        /\ opened = (IF has_out_nodata THEN <<1>> ELSE <<1, 1>>)
                    \o [k \in 1..n |-> k]
        /\ pc = "extent"
        /\ cols = 0 /\ rows = 0
        /\ bbox = NoBox /\ tile = NoImage /\ weights = NoImage /\ contrib = NoImage
        /\ oob = FALSE
        /\ log = <<>> /\ exit_status = 0 - 1
        /\ num_tiles_x = 0 /\ num_tiles_y = 0
        /\ tile_id = 0 /\ end_tile = 0
        /\ written = NoImage
        /\ pending = {} /\ worker = <<>> /\ buf = <<>> /\ dest = NoImage
        /\ block_size = 0
        /\ options = NoOptions /\ imageFiles = <<>> /\ frame_i = 0
        /\ taskHandles = <<>> /\ run_pc = "idle"
        /\ pool = "none" /\ ready = {} /\ notReady = 0 /\ task = 0

Next ==
    \/ ComputeExtent
    \/ PartitionTiles
    \/ BeginTile
    \/ ProcessSource
    \/ Normalize
    \/ WriteTile
    \/ Finish

Spec == Init /\ [][Next]_vars

----------------------------------------------------------------------------
(* The whole run, from the command line *)

\* command lines with every combination of good and bad options, over lists of
\* rasters with and without a georeference.  mpp is a field no option sets and
\* the constructor leaves uninitialized: it holds any number.
WideOptions ==
    [mpp : {0, 1}, tr : {0, 1}, out_prefix : {"", "out"},
     num_threads : {0 - 1, 0, 1}, erode_len : {0 - 1, 0, 1},
     blending_len : {0 - 1, 0}, tile_size : {0, MaxTileSize - 1},
     draft_mode : BOOLEAN, geo_tile_size : {0 - 1, 0},
     dem_list_file : {"", "list.txt"}, extra : BOOLEAN,
     target_srs_string : {"", "A ", "B"}, tile_index : {0 - 1},
     has_out_nodata : {FALSE}, out_nodata_value : {0}]

RECURSIVE FileLists(_)
FileLists(n) ==
    IF n = 0 THEN {<<>>}
    ELSE {Append(l, Raster(MaxDim, MaxDim, {}, 10 * (n - 1) + 1, 0, 0, g)) :
            l \in FileLists(n - 1), g \in BOOLEAN}

\* valid command lines over one raster, with every tile size and tile index
TileOptions ==
    {[ValidOptions(FALSE, 0, has) EXCEPT
        !.tile_size = ts, !.tile_index = ti, !.geo_tile_size = gts,
        !.num_threads = nt] :
       has \in BOOLEAN, ts \in 1..MaxTileSize, ti \in (0 - 1)..MaxTileIndex,
       gts \in {0, MaxTileSize - 1}, nt \in {1, 2}}

InitMain ==
    /\ \/ /\ opt \in WideOptions
          /\ \E n \in 0..MaxFiles : dem_files \in FileLists(n)
          /\ opt.dem_list_file = "" => ~opt.extra
       \/ /\ opt \in TileOptions
          /\ \E w \in 1..MaxMainDim, h \in 1..MaxMainDim :
               dem_files = <<Raster(w, h, {}, 1, 0, 0, TRUE)>>
    /\ pc = "args"
    /\ images = <<>>
    /\ out_georef = [proj |-> "", ox |-> 0, oy |-> 0]
    /\ dem_iter = 0
    /\ opened = <<>>
    /\ cols = 0 /\ rows = 0
    /\ bbox = NoBox /\ tile = NoImage /\ weights = NoImage /\ contrib = NoImage
    /\ oob = FALSE
    /\ log = <<>> /\ exit_status = 0 - 1
    /\ num_tiles_x = 0 /\ num_tiles_y = 0
    /\ tile_id = 0 /\ end_tile = 0
    /\ written = NoImage
    /\ pending = {} /\ worker = <<>> /\ buf = <<>> /\ dest = NoImage
    /\ block_size = 0
    /\ options = NoOptions /\ imageFiles = <<>> /\ frame_i = 0
    /\ taskHandles = <<>> /\ run_pc = "idle"
    /\ pool = "none" /\ ready = {} /\ notReady = 0 /\ task = 0

NextMain ==
    \/ HandleArguments
    \/ ReadNodata
    \/ FormGeoref
    \/ ReadSource
    \/ ComputeExtent
    \/ PartitionTiles
    \/ BeginTile
    \/ ProcessSource
    \/ Normalize
    \/ WriteTile
    \/ Finish

SpecMain == InitMain /\ [][NextMain]_vars

----------------------------------------------------------------------------
(* The blocks of a tile, rasterized by the threads of block_cache *)

\* The blocks of block_cache are squares of block_size pixels: the model cuts
\* its small tiles into squares of BlockSide pixels,
BlockSide == 2
\* rasterized by at most MaxThreads threads (--threads).
MaxThreads == 2

\* the blocks of the tile box tb, each cropped to it
BlockBoxes(tb) ==
    {BoxCrop([minx |-> tb.minx + i * BlockSide,
              miny |-> tb.miny + j * BlockSide,
              maxx |-> tb.minx + (i + 1) * BlockSide,
              maxy |-> tb.miny + (j + 1) * BlockSide], tb) :
       i \in 0 .. (BoxWidth(tb) - 1) \div BlockSide,
       j \in 0 .. (BoxHeight(tb) - 1) \div BlockSide}

\* lines 184-187: the images tile and weights of one call of prerasterize
Fresh(b) ==
    [tile |-> [p \in (0 .. BoxWidth(b) - 1) \X (0 .. BoxHeight(b) - 1) |->
                 <<TS * opt.out_nodata_value, TS>>],
     weights |-> [p \in (0 .. BoxWidth(b) - 1) \X (0 .. BoxHeight(b) - 1) |-> 0]]

\* The images a call of prerasterize made by thread t writes to: they are
\* local variables of the call (lines 184-185), one pair per call.
BufferOf_Shared(t) == 1

BufferOf(t) == t

\* lines 248-305: the pixels of the images tw after the cropped source (values
\* vals, weights wts) is accumulated into the box b
AccumulatePixels(b, f, pb, vals, wts, tw, garbage) ==
    LET new == [p \in DOMAIN tw.tile |->
                  LET s == Sample(b, f, pb, vals, wts, p[1], p[2], garbage)
                  IN  IF s.hit
                      THEN Combine(tw.tile[p][1], tw.weights[p], s.val, s.wt)
                      ELSE <<tw.tile[p][1], tw.weights[p]>>]
    IN  [tile |-> [p \in DOMAIN tw.tile |-> <<new[p][1], TS>>],
         weights |-> [p \in DOMAIN tw.tile |-> new[p][2]]]

\* lines 189-308: one round of the loop over the sources, for source k and the
\* box b, on the images tw (garbage as in ProcessSource)
Accumulate(b, k, tw, garbage) ==
    LET f == images[k]
        pb == PixBox(b, f)
    IN  IF BoxEmpty(pb) THEN tw
        ELSE CHOOSE r \in {AccumulatePixels(b, f, pb, vals, wts, tw, garbage) :
                             vals \in {DemVals(f, pb)}, wts \in {LocalWts(f, pb)}} :
               TRUE

\* lines 310-322: the pixels prerasterize returns
Returned(tw) == [p \in DOMAIN tw.tile |-> Divide(tw.tile[p], tw.weights[p])]

Idle == [busy |-> FALSE, box |-> NoBox, k |-> 0]

\* lines 639-646: block_cache cuts the tile into blocks, for opt.num_threads
\* threads
StartBlocks ==
    /\ pc = "tile"
    /\ tile_id < end_tile
    /\ LET tile_box == TileBox(tile_id, num_tiles_x, num_tiles_y, opt.tile_size,
                               cols, rows)
       IN  /\ bbox' = tile_box
           /\ pending' = (IF BoxEmpty(tile_box) THEN {} ELSE BlockBoxes(tile_box))
    /\ worker' = [t \in 1 .. opt.num_threads |-> Idle]
    /\ buf' = [t \in 1 .. opt.num_threads |-> Fresh(NoBox)]
    /\ dest' = NoImage
    /\ pc' = "blocks"
    /\ UNCHANGED <<opt, dem_files, images, out_georef, cols, rows, dem_iter, tile,
                   weights, contrib, oob, opened, log, exit_status, num_tiles_x,
                   num_tiles_y, tile_id, end_tile, written,
                   block_size>>
    /\ UNCHANGED rvars

\* lines 179-187: thread t takes a block and calls prerasterize on its box
TakeBlock(t) ==
    /\ pc = "blocks"
    /\ ~worker[t].busy
    /\ \E b \in pending :
         /\ pending' = pending \ {b}
         /\ worker' = [worker EXCEPT ![t] = [busy |-> TRUE, box |-> b, k |-> 0]]
         /\ buf' = [buf EXCEPT ![BufferOf(t)] = Fresh(b)]
    /\ UNCHANGED <<pc, opt, dem_files, images, out_georef, cols, rows, bbox,
                   dem_iter, tile, weights, contrib, oob, opened, log,
                   exit_status, num_tiles_x, num_tiles_y, tile_id, end_tile,
                   written, dest,
                   block_size>>
    /\ UNCHANGED rvars

\* lines 189-308: thread t accumulates the next source into its images
BlockSource(t) ==
    /\ pc = "blocks"
    /\ worker[t].busy
    /\ worker[t].k < Len(images)
    /\ \E garbage \in {0, 1} :
         buf' = [buf EXCEPT ![BufferOf(t)] =
                   Accumulate(worker[t].box, worker[t].k + 1, @, garbage)]
    /\ worker' = [worker EXCEPT ![t].k = @ + 1]
    /\ UNCHANGED <<pc, opt, dem_files, images, out_georef, cols, rows, bbox,
                   dem_iter, tile, weights, contrib, oob, opened, log,
                   exit_status, num_tiles_x, num_tiles_y, tile_id, end_tile,
                   written, pending, dest,
                   block_size>>
    /\ UNCHANGED rvars

\* lines 310-328: thread t divides by the weights and returns; rasterize
\* copies the block to the destination
FinishBlock(t) ==
    /\ pc = "blocks"
    /\ worker[t].busy
    /\ worker[t].k = Len(images)
    /\ dest' = dest @@ (worker[t].box :> Returned(buf[BufferOf(t)]))
    /\ worker' = [worker EXCEPT ![t] = Idle]
    /\ UNCHANGED <<pc, opt, dem_files, images, out_georef, cols, rows, bbox,
                   dem_iter, tile, weights, contrib, oob, opened, log,
                   exit_status, num_tiles_x, num_tiles_y, tile_id, end_tile,
                   written, pending, buf,
                   block_size>>
    /\ UNCHANGED rvars

\* the pixel p of the tile, in the block of dest that holds it
Assembled(p) ==
    LET b == CHOOSE c \in DOMAIN dest :
               /\ c.minx <= bbox.minx + p[1] /\ bbox.minx + p[1] < c.maxx
               /\ c.miny <= bbox.miny + p[2] /\ bbox.miny + p[2] < c.maxy
    IN  dest[b][<<bbox.minx + p[1] - b.minx, bbox.miny + p[2] - b.miny>>]

\* line 646: every block of the tile is in the image out_dem
TileDone ==
    /\ pc = "blocks"
    /\ pending = {}
    /\ \A t \in DOMAIN worker : ~worker[t].busy
    /\ tile' = [p \in (0 .. BoxWidth(bbox) - 1) \X (0 .. BoxHeight(bbox) - 1) |->
                  Assembled(p)]
    /\ pc' = "write"
    /\ UNCHANGED <<opt, dem_files, images, out_georef, cols, rows, bbox, dem_iter,
                   weights, contrib, oob, opened, log, exit_status, num_tiles_x,
                   num_tiles_y, tile_id, end_tile, written>>
    /\ UNCHANGED bvars
    /\ UNCHANGED rvars

\* The block specification starts as the compositor specification does, in
\* blended or draft mode without erosion, with one thread or MaxThreads
\* threads.  The sources are MaxDim pixels wide and one block high; each lies
\* a whole pixel to the right of the one before, level with it or (in blended
\* mode) a grid step above it, so that the tile is a row of blocks.
InitBlocks ==
    \E threads \in {1, MaxThreads}, n \in {MaxSources}, draft \in BOOLEAN,
       w \in {MaxDim}, h \in {BlockSide}, dy \in (0 - 1)..0 :
      \E files \in (IF draft => dy = 0
                    THEN RasterLists(n, w, h, Sub, dy) ELSE {}) :
        /\ opt = [ValidOptions(draft, 0, FALSE) EXCEPT !.num_threads = threads]
        /\ dem_files = files
        /\ images = files
        /\ out_georef = [proj |-> "A", ox |-> files[1].ox, oy |-> files[1].oy]
        /\ dem_iter = n
        /\ opened = <<1, 1>> \o [k \in 1..n |-> k]
        /\ pc = "extent"
        /\ cols = 0 /\ rows = 0
        /\ bbox = NoBox /\ tile = NoImage /\ weights = NoImage /\ contrib = NoImage
        /\ oob = FALSE
        /\ log = <<>> /\ exit_status = 0 - 1
        /\ num_tiles_x = 0 /\ num_tiles_y = 0
        /\ tile_id = 0 /\ end_tile = 0
        /\ written = NoImage
        /\ pending = {} /\ worker = <<>> /\ buf = <<>> /\ dest = NoImage
        /\ block_size = 0
        /\ options = NoOptions /\ imageFiles = <<>> /\ frame_i = 0
        /\ taskHandles = <<>> /\ run_pc = "idle"
        /\ pool = "none" /\ ready = {} /\ notReady = 0 /\ task = 0

NextBlocks ==
    \/ ComputeExtent
    \/ PartitionTiles
    \/ StartBlocks
    \/ \E t \in DOMAIN worker : TakeBlock(t)
    \/ \E t \in DOMAIN worker : BlockSource(t)
    \/ \E t \in DOMAIN worker : FinishBlock(t)
    \/ TileDone

SpecBlocks == InitBlocks /\ [][NextBlocks]_vars

----------------------------------------------------------------------------
(* process_icebridge_run: the pairs given to the processing pool *)

\* The image folder holds at most MaxFrames files,
MaxFrames == 3
\* with frame numbers of at most MaxFrame.
MaxFrame == 3

\* lines 117-120: the value of --start-frame or --stop-frame after parsing
FrameOption(given, frame) == IF given THEN frame ELSE 0 - 1

\* the truth value Python gives a number in a condition
Truthy(x) == x # 0

\* lines 278-281: the frame is not inside the user specified frame range
OutsideRange(o, frameNumber) ==
    \/ Truthy(o.startFrame) /\ frameNumber < o.startFrame
    \/ Truthy(o.stopFrame) /\ frameNumber > o.stopFrame

\* the sorted lists of at most n frame numbers from lo on: the image and the
\* camera files carry the same numbers (lines 214-219)
RECURSIVE FrameLists(_, _)
FrameLists(n, lo) ==
    IF n = 0 THEN {<<>>}
    ELSE {<<>>} \cup UNION {{<<f>> \o l : l \in FrameLists(n - 1, f + 1)} :
                              f \in lo..MaxFrame}

\* line 277: frameNumber of the pair i
FrameNumber == imageFiles[frame_i + 1]

\* lines 278-281: continue
SkipFrame ==
    /\ run_pc = "pairs"
    /\ frame_i < Len(imageFiles) - 1
    /\ OutsideRange(options, FrameNumber)
    /\ frame_i' = frame_i + 1
    /\ UNCHANGED <<options, imageFiles, taskHandles, run_pc, pool, ready,
                   notReady, task>>
    /\ UNCHANGED mvars
    /\ UNCHANGED bvars

\* lines 287-289: tri-view stereo has no image before the first
RaiseTriView ==
    /\ run_pc = "pairs"
    /\ frame_i < Len(imageFiles) - 1
    /\ ~OutsideRange(options, FrameNumber)
    /\ options.triView /\ frame_i = 0
    /\ run_pc' = "raised"
    /\ UNCHANGED <<options, imageFiles, frame_i, taskHandles, pool, ready,
                   notReady, task>>
    /\ UNCHANGED mvars
    /\ UNCHANGED bvars

\* lines 283-337: the pair i is given to the pool (imageC is -1 for "")
SubmitPair ==
    /\ run_pc = "pairs"
    /\ frame_i < Len(imageFiles) - 1
    /\ ~OutsideRange(options, FrameNumber)
    /\ ~(options.triView /\ frame_i = 0)
    /\ taskHandles' = Append(taskHandles,
                             [i |-> frame_i,
                              imageA |-> imageFiles[frame_i + 1],
                              imageB |-> imageFiles[frame_i + 2],
                              imageC |-> IF options.triView
                                         THEN imageFiles[frame_i] ELSE 0 - 1])
    /\ frame_i' = frame_i + 1
    /\ UNCHANGED <<options, imageFiles, run_pc, pool, ready, notReady, task>>
    /\ UNCHANGED mvars
    /\ UNCHANGED bvars

\* lines 342-344: End of loop through input file pairs
FinishAdding ==
    /\ run_pc = "pairs"
    /\ frame_i >= Len(imageFiles) - 1
    /\ notReady' = Len(taskHandles)
    /\ run_pc' = "wait"
    /\ UNCHANGED <<options, imageFiles, frame_i, taskHandles, pool, ready, task>>
    /\ UNCHANGED mvars
    /\ UNCHANGED bvars

\* A worker of the pool ends processPair for the task k, with a result or an
\* exception: the handle of the task becomes ready. The workers run until
\* pool.terminate() stops them.
TaskFinishes(k) ==
    /\ pool \in {"RUN", "CLOSE"}
    /\ k \in (1 .. Len(taskHandles)) \ ready
    /\ ready' = ready \cup {k}
    /\ UNCHANGED <<options, imageFiles, frame_i, taskHandles, run_pc, pool,
                   notReady, task>>
    /\ UNCHANGED mvars
    /\ UNCHANGED bvars

\* line 363: task.ready() of the k-th handle
Ready_Never(k) == FALSE
Ready(k) == k \in ready

\* lines 349-361: one wait of the loop, no quit command: time.sleep(5), or
\* nonBlockingRawInput gives a line other than q or '' at its timeout; then
\* the count starts again from 0
Wait ==
    /\ run_pc = "wait"
    /\ notReady > 0
    /\ notReady' = 0
    /\ task' = 0
    /\ run_pc' = "count"
    /\ UNCHANGED <<options, imageFiles, frame_i, taskHandles, pool, ready>>
    /\ UNCHANGED mvars
    /\ UNCHANGED bvars

\* lines 353-355: the user typed q: break
Quit ==
    /\ run_pc = "wait"
    /\ notReady > 0
    /\ options.interactive
    /\ run_pc' = "cleanup"
    /\ UNCHANGED <<options, imageFiles, frame_i, taskHandles, pool, ready,
                   notReady, task>>
    /\ UNCHANGED mvars
    /\ UNCHANGED bvars

\* lines 362-364: the next handle is counted when its task is not ready
CountTask ==
    /\ run_pc = "count"
    /\ task < Len(taskHandles)
    /\ notReady' = IF Ready(task + 1) THEN notReady ELSE notReady + 1
    /\ task' = task + 1
    /\ UNCHANGED <<options, imageFiles, frame_i, taskHandles, run_pc, pool, ready>>
    /\ UNCHANGED mvars
    /\ UNCHANGED bvars

\* line 362: the handles are exhausted, back to the test of the loop
CountDone ==
    /\ run_pc = "count"
    /\ task >= Len(taskHandles)
    /\ run_pc' = "wait"
    /\ UNCHANGED <<options, imageFiles, frame_i, taskHandles, pool, ready,
                   notReady, task>>
    /\ UNCHANGED mvars
    /\ UNCHANGED bvars

\* line 347: notReady > 0 is false, the loop ends
ExitLoop ==
    /\ run_pc = "wait"
    /\ notReady = 0
    /\ run_pc' = "cleanup"
    /\ UNCHANGED <<options, imageFiles, frame_i, taskHandles, pool, ready,
                   notReady, task>>
    /\ UNCHANGED mvars
    /\ UNCHANGED bvars

\* line 369: pool.close()
PoolClose ==
    /\ run_pc = "cleanup"
    /\ pool = "RUN"
    /\ pool' = "CLOSE"
    /\ UNCHANGED <<options, imageFiles, frame_i, taskHandles, run_pc, ready,
                   notReady, task>>
    /\ UNCHANGED mvars
    /\ UNCHANGED bvars

\* lines 370-371: time.sleep(PROCESS_POOL_KILL_TIMEOUT), pool.terminate()
PoolTerminate ==
    /\ run_pc = "cleanup"
    /\ pool = "CLOSE"
    /\ pool' = "TERMINATE"
    /\ UNCHANGED <<options, imageFiles, frame_i, taskHandles, run_pc, ready,
                   notReady, task>>
    /\ UNCHANGED mvars
    /\ UNCHANGED bvars

\* line 372: pool.join()
PoolJoin ==
    /\ run_pc = "cleanup"
    /\ pool = "TERMINATE"
    /\ pool' = "joined"
    /\ run_pc' = "done"
    /\ UNCHANGED <<options, imageFiles, frame_i, taskHandles, ready, notReady,
                   task>>
    /\ UNCHANGED mvars
    /\ UNCHANGED bvars

\* The script at line 262, its files listed, sorted and found aligned:
\* --start-frame and --stop-frame are given or not (startGiven and stopGiven
\* keep what the command line said), --tri-view is set or not.
InitRun ==
    \E startGiven \in BOOLEAN, stopGiven \in BOOLEAN, tri \in BOOLEAN,
       interactive \in BOOLEAN, start \in 0..MaxFrame, stop \in 0..MaxFrame :
      \E frames \in (IF (startGiven \/ start = 0) /\ (stopGiven \/ stop = 0)
                     THEN FrameLists(MaxFrames, 0) ELSE {}) :
        /\ options = [startGiven |-> startGiven, stopGiven |-> stopGiven,
                      startFrame |-> FrameOption(startGiven, start),
                      stopFrame |-> FrameOption(stopGiven, stop),
                      triView |-> tri, interactive |-> interactive]
        /\ imageFiles = frames
        /\ frame_i = 0
        /\ taskHandles = <<>>
        /\ run_pc = "pairs"
        /\ pool = "RUN" /\ ready = {} /\ notReady = 0 /\ task = 0
        /\ pc = "idle"
        /\ opt = ValidOptions(FALSE, 0, FALSE)
        /\ dem_files = <<>> /\ images = <<>> /\ opened = <<>>
        /\ out_georef = [proj |-> "A", ox |-> 0, oy |-> 0]
        /\ dem_iter = 0
        /\ cols = 0 /\ rows = 0
        /\ bbox = NoBox /\ tile = NoImage /\ weights = NoImage /\ contrib = NoImage
        /\ oob = FALSE
        /\ log = <<>> /\ exit_status = 0 - 1
        /\ num_tiles_x = 0 /\ num_tiles_y = 0
        /\ tile_id = 0 /\ end_tile = 0
        /\ written = NoImage
        /\ pending = {} /\ worker = <<>> /\ buf = <<>> /\ dest = NoImage
        /\ block_size = 0

\* the steps of the script other than the quit command
Script ==
    \/ SkipFrame
    \/ RaiseTriView
    \/ SubmitPair
    \/ FinishAdding
    \/ Wait
    \/ CountTask
    \/ CountDone
    \/ ExitLoop
    \/ PoolClose
    \/ PoolTerminate
    \/ PoolJoin

NextRun ==
    \/ SkipFrame
    \/ RaiseTriView
    \/ SubmitPair
    \/ FinishAdding
    \/ Wait
    \/ Quit
    \/ CountTask
    \/ CountDone
    \/ ExitLoop
    \/ PoolClose
    \/ PoolTerminate
    \/ PoolJoin
    \/ \E k \in 1 .. Len(taskHandles) : TaskFinishes(k)

SpecRun == InitRun /\ [][NextRun]_vars

\* The script goes on: time.sleep and pool.close, terminate and join return,
\* and the alarm of nonBlockingRawInput ends the wait for the keyboard after
\* its timeout. Nothing makes the user type q or a task end.
SpecWait == SpecRun /\ WF_vars(Script)

----------------------------------------------------------------------------
(* main: the size of the blocks (lines 608-613) *)

\* The erode and blending lengths are taken from 0..MaxLen
MaxLen == 65
\* and from the numbers around the LargeExps largest powers of two of int.
LargeExps == 5

\* the largest int, and the least
MaxInt == 2147483647
MinInt == -MaxInt - 1

\* don't make them too small though
MinBlockSize == 256

\* 2^k, for k up to 30
RECURSIVE Pow2(_)
Pow2(k) == IF k = 0 THEN 1 ELSE 2 * Pow2(k - 1)

\* the least k with 2^k >= 4*n, for n in 1..MaxInt
CeilLog2Of4(n) ==
    CHOOSE k \in 2..33 :
      /\ k - 2 > 30 \/ Pow2(k - 2) >= n
      /\ \A m \in 2..(k - 1) : Pow2(m - 2) < n

\* The exponents k for which the quotient log(2^k)/log(2.0) of two doubles
\* comes out above k (29.000000000000004 and 31.000000000000004, with
\* logarithms rounded to the nearest double); for the other k up to 33 it is
\* exactly k, and beside the powers of two the quotient is off an integer by
\* far more than its rounding error.
QuotientAbove == {29, 31}

\* (int)ceil(log(4.0*n)/log(2.0))
CeilLog(n) ==
    LET k == CeilLog2Of4(n)
    IN  IF k - 2 <= 30 /\ Pow2(k - 2) = n /\ k \in QuotientAbove THEN k + 1 ELSE k

\* 1 << k in int: a shift into or beyond the sign bit is undefined; the builds
\* give the least int (k = 31), the shift by k modulo 32, or 0
ShiftLeft(k) ==
    IF k <= 30 THEN {Pow2(k)}
    ELSE IF k = 31 THEN {MinInt, 0}
    ELSE {Pow2(k - 32), 0}

\* lines 611-613: the values block_size can get
BlockSizes(erode_len, blending_len) ==
    {Max({s, MinBlockSize}) :
       s \in ShiftLeft(CeilLog(Max({1, erode_len + blending_len})))}

\* lines 608-613
ComputeBlockSize ==
    /\ pc = "blocksize"
    /\ block_size' \in BlockSizes(opt.erode_len, opt.blending_len)
    /\ pc' = "blocksized"
    /\ UNCHANGED <<opt, dem_files, images, out_georef, cols, rows, bbox, dem_iter,
                   tile, weights, contrib, oob, opened, log, exit_status,
                   num_tiles_x, num_tiles_y, tile_id, end_tile, written, pending,
                   worker, buf, dest>>
    /\ UNCHANGED rvars

\* the lengths tried: the small ones, and the ones around large powers of two
Lens ==
    (0..MaxLen) \cup UNION {{Pow2(k) - 1, Pow2(k), Pow2(k) + 1} : k \in (31 - LargeExps)..30}

\* main at line 608, with erode and blending lengths that passed the checks of
\* handle_arguments (both at least 0) and whose sum is an int
InitBlockSize ==
    \E erode \in Lens, blending \in Lens :
        /\ erode <= MaxInt - blending
        /\ opt = [ValidOptions(FALSE, 0, FALSE) EXCEPT !.erode_len = erode,
                                                       !.blending_len = blending]
        /\ pc = "blocksize"
        /\ block_size = 0
        /\ dem_files = <<>> /\ images = <<>> /\ opened = <<>>
        /\ out_georef = [proj |-> "A", ox |-> 0, oy |-> 0]
        /\ dem_iter = 0
        /\ cols = 0 /\ rows = 0
        /\ bbox = NoBox /\ tile = NoImage /\ weights = NoImage /\ contrib = NoImage
        /\ oob = FALSE
        /\ log = <<>> /\ exit_status = 0 - 1
        /\ num_tiles_x = 0 /\ num_tiles_y = 0
        /\ tile_id = 0 /\ end_tile = 0
        /\ written = NoImage
        /\ pending = {} /\ worker = <<>> /\ buf = <<>> /\ dest = NoImage
        /\ options = NoOptions /\ imageFiles = <<>> /\ frame_i = 0
        /\ taskHandles = <<>> /\ run_pc = "idle"
        /\ pool = "none" /\ ready = {} /\ notReady = 0 /\ task = 0

NextBlockSize == ComputeBlockSize

SpecBlockSize == InitBlockSize /\ [][NextBlockSize]_vars

----------------------------------------------------------------------------
(* Properties of the compositor (specification Spec) *)

\* prerasterize has returned the box
Rasterized == pc = "write"

\* the contributions of box pixel p: their weights, and their weighted values
ContribWts(p) == [k \in 1..Len(contrib[p]) |-> contrib[p][k].wt]
ContribWtVals(p) == [k \in 1..Len(contrib[p]) |-> contrib[p][k].wt * contrib[p][k].val]

\* C1: in blended mode, when prerasterize has processed all sources of a box,
\* every pixel that received a contribution has as weight the sum of the
\* weights of the sources that contributed to it, and as value the sum of
\* their weight * value divided by the sum of their weights.
C1_BlendedIsWeightedAverage ==
    (Rasterized /\ ~opt.draft_mode) =>
      \A p \in DOMAIN tile :
        contrib[p] # <<>> =>
          /\ weights[p] = SumSeq(ContribWts(p))
          /\ RatEq(tile[p], <<SumSeq(ContribWtVals(p)), VS * SumSeq(ContribWts(p))>>)

\* the pixel of the single source at the position of box pixel p
SourcePixel(p) == images[1].pix[<<p[1] + bbox.minx, p[2] + bbox.miny>>]

\* C2: the mosaic of a single source, with no target projection, no resolution
\* override and erode length 0, has the size of the source, and every pixel of
\* it is the source pixel at the same position: the value of a valid pixel,
\* the output no-data value for a no-data pixel.
C2_SingleSourceIdentity ==
    (Len(images) = 1 /\ opt.erode_len = 0 /\ opt.tr = 0
       /\ opt.target_srs_string = "" /\ pc \notin {"args", "nodata", "georef",
                                                    "read", "extent", "error"}) =>
      /\ cols = images[1].w
      /\ rows = images[1].h
      /\ Rasterized =>
           \A p \in DOMAIN tile :
             IF SourcePixel(p) # images[1].nodata
             THEN RatEq(tile[p], <<SourcePixel(p), 1>>)
             ELSE RatEq(tile[p], <<opt.out_nodata_value, 1>>)

\* the pixels of the mosaic of a single source do equal the source's
C2_SingleSourcePixels ==
    (Len(images) = 1 /\ opt.erode_len = 0 /\ Rasterized) =>
       \A p \in DOMAIN tile :
         IF SourcePixel(p) # images[1].nodata
         THEN RatEq(tile[p], <<SourcePixel(p), 1>>)
         ELSE RatEq(tile[p], <<opt.out_nodata_value, 1>>)

\* C3: in draft mode, every box pixel to which one or more sources contributed
\* holds exactly the value sampled from the last contributing source in input
\* order, after each source and after the final normalization: never a
\* combination of two sources.
C3_DraftLastWriterWins ==
    (opt.draft_mode /\ pc \in {"sources", "write"}) =>
      \A p \in DOMAIN tile :
        contrib[p] # <<>> =>
          LET last == contrib[p][Len(contrib[p])] IN
            /\ RatEq(tile[p], <<last.val, VS>>)
            /\ \A k \in 1..Len(contrib[p]) : contrib[p][k].src <= last.src

\* a draft box is rasterized in which two sources gave a pixel different values
C3_TwoWriters ==
    /\ opt.draft_mode
    /\ Rasterized
    /\ \E p \in DOMAIN tile :
         /\ Len(contrib[p]) = 2
         /\ contrib[p][1].val # contrib[p][2].val

\* C4: in both modes, a box pixel to which no source contributed a positive
\* weight holds exactly the output no-data value, as it was filled in, and
\* weight 0, while the sources are processed and when prerasterize returns.
C4_UntouchedStaysNoData ==
    pc \in {"sources", "write"} =>
      \A p \in DOMAIN tile :
        contrib[p] = <<>> =>
          /\ tile[p] = <<TS * opt.out_nodata_value, TS>>
          /\ weights[p] = 0

\* a rasterized box with a pixel no source reached and a pixel a source reached
C4_SomeUntouched ==
    /\ Rasterized
    /\ \E p \in DOMAIN tile : contrib[p] = <<>>
    /\ \E p \in DOMAIN tile : contrib[p] # <<>>

----------------------------------------------------------------------------
(* Properties of the whole run (specification SpecMain) *)

\* the tiles have been counted
Partitioned == num_tiles_x > 0

\* the ids of the tiles
TileIds == 0 .. (num_tiles_x * num_tiles_y - 1)

\* the pixels of the box of tile id
TilePixels(id) ==
    BoxPixels(TileBox(id, num_tiles_x, num_tiles_y, opt.tile_size, cols, rows))

\* C5: once the tiles are counted, each pixel of [0,cols) x [0,rows) lies in
\* the box of some tile id of 0..num_tiles-1.
C5_TilesCoverMosaic ==
    Partitioned =>
      \A x \in 0 .. cols - 1, y \in 0 .. rows - 1 :
        \E id \in TileIds : <<x, y>> \in TilePixels(id)

\* C6: the boxes of two distinct tile ids of 0..num_tiles-1 have no pixel in
\* common, and neither have the boxes of two tiles that were written.
C6_TilesDisjoint ==
    /\ Partitioned =>
         \A i, j \in TileIds : i # j => TilePixels(i) \cap TilePixels(j) = {}
    /\ \A i, j \in DOMAIN written :
         i # j => BoxPixels(written[i]) \cap BoxPixels(written[j]) = {}

\* two tiles with pixels were written, of a mosaic with more tiles along one
\* axis than along the other
C6_TwoTilesWritten ==
    /\ num_tiles_x # num_tiles_y
    /\ \E i, j \in DOMAIN written :
         /\ i # j
         /\ BoxPixels(written[i]) # {}
         /\ BoxPixels(written[j]) # {}

\* the configuration errors: both resolution flags set; missing output
\* prefix; non-positive thread count; negative erode or blending length;
\* non-positive tile size; draft mode with erosion; negative projected tile
\* size; changing the projection without a resolution; no input sources
ConfigurationError ==
    \/ opt.mpp > 0 /\ opt.tr > 0
    \/ opt.out_prefix = ""
    \/ opt.num_threads <= 0
    \/ opt.erode_len < 0
    \/ opt.blending_len < 0
    \/ opt.tile_size <= 0
    \/ opt.draft_mode /\ opt.erode_len > 0
    \/ opt.geo_tile_size < 0
    \/ /\ Len(dem_files) > 0
       /\ dem_files[1].georef
       /\ opt.target_srs_string # ""
       /\ processed_proj4(opt.target_srs_string) # dem_files[1].proj
       /\ opt.tr <= 0
    \/ Len(dem_files) = 0

\* C7: a run with a configuration error opens no raster file, and goes from
\* the validation of its arguments to the error exit only.
C7_ConfigErrorBeforeRasterIO ==
    ConfigurationError => (opened = <<>> /\ pc \in {"args", "error"})

\* C8: a run whose thread count is zero or negative is rejected when its
\* arguments are validated: it goes from the validation to the error exit
\* only, evaluates no tile and writes no tile.
C8_NonPositiveThreadsRejected ==
    opt.num_threads <= 0 =>
      /\ pc \in {"args", "error"}
      /\ pc \notin {"sources", "write"}
      /\ DOMAIN written = {}

\* C9: a run with draft mode set and erode length > 0 is rejected when its
\* arguments are validated: it opens no raster, never reaches the compositor
\* and writes no tile.
C9_DraftExcludesErosion ==
    (opt.draft_mode /\ opt.erode_len > 0) =>
      /\ pc \in {"args", "error"}
      /\ opened = <<>>
      /\ DOMAIN written = {}

\* a run with draft mode and erosion, no other argument being wrong, was
\* rejected for it
C9_DraftErosionRejected ==
    /\ opt.draft_mode /\ opt.erode_len > 0
    /\ pc = "error"
    /\ log = <<"Cannot erode pixels in draft mode">>

\* C10: when the tiles are counted and the requested tile index is greater
\* than or equal to their number, the run is over with status 0, its only
\* output is the diagnostic, and no tile was evaluated or written.
C10_TileIndexOutOfBoundsIsNoOp ==
    (Partitioned /\ opt.tile_index >= num_tiles_x * num_tiles_y) =>
      /\ pc = "done"
      /\ exit_status = 0
      /\ log = <<"Tile with index is out of bounds">>
      /\ tile = NoImage
      /\ DOMAIN written = {}

\* the requested tile index is the number of tiles, the first index too large
C10_FirstIndexTooLarge ==
    /\ Partitioned
    /\ opt.tile_index = num_tiles_x * num_tiles_y
    /\ pc = "done"

\* the positions in the input list of the sources with no georeference
NoGeoref == {k \in 1..Len(dem_files) : ~dem_files[k].georef}

\* the projection is to change and no resolution is given (lines 491-497)
ProjectionChangeWithoutResolution ==
    /\ Len(dem_files) > 0
    /\ dem_files[1].georef
    /\ opt.target_srs_string # ""
    /\ processed_proj4(opt.target_srs_string) # dem_files[1].proj
    /\ opt.tr <= 0

\* C11: when a source at any position of the input list has no
\* georeference, the run never gets past the reading of its sources: no
\* extent is computed, no tile is evaluated or written; and when the
\* arguments are otherwise accepted, the run ends in the error that names
\* the first such file, with status 1.
C11_MissingGeorefIsFatal ==
    NoGeoref # {} =>
      /\ pc \in {"args", "nodata", "georef", "read", "error"}
      /\ tile = NoImage
      /\ DOMAIN written = {}
      /\ (pc = "read" => dem_iter < Min(NoGeoref))
      /\ (pc = "error" /\ ArgError(opt, Len(dem_files)) = ""
            /\ ~ProjectionChangeWithoutResolution) =>
           /\ log = <<"No georeference found in " \o ToString(Min(NoGeoref))>>
           /\ exit_status = 1

\* the second source of two has no georeference, and the run ended on it
C11_SecondSourceRejected ==
    /\ NoGeoref = {2}
    /\ pc = "error"
    /\ log = <<"No georeference found in 2">>
    /\ opened[Len(opened)] = 2

\* the tiles to save (lines 622-627)
SelectedTiles == IF opt.tile_index < 0 THEN TileIds ELSE {opt.tile_index}

\* C12: no file is written for a tile whose box is empty after the crop to
\* [0,cols) x [0,rows); the tile loop does not end in an error; and when the
\* run is over, every selected tile whose box has pixels was written.
C12_EmptyTilesSkipped ==
    /\ \A id \in DOMAIN written : ~BoxEmpty(written[id])
    /\ Partitioned => pc # "error"
    /\ (pc = "done" /\ Partitioned
          /\ ~TileIndexOutOfBounds(opt.tile_index, num_tiles_x * num_tiles_y)) =>
         \A id \in SelectedTiles : TilePixels(id) # {} => id \in DOMAIN written

\* the tiles with a box of width or height 0 are skipped, and the loop goes on
C12_ZeroSizeTilesSkipped ==
    /\ \A id \in DOMAIN written : BoxWidth(written[id]) # 0 /\ BoxHeight(written[id]) # 0
    /\ (pc = "done" /\ Partitioned /\ exit_status = 0
          /\ ~TileIndexOutOfBounds(opt.tile_index, num_tiles_x * num_tiles_y)) =>
         \A id \in SelectedTiles : TilePixels(id) # {} => id \in DOMAIN written

----------------------------------------------------------------------------
(* Properties of the processing of one source (specification Spec) *)

\* a source of the box has been processed, and its buffer was not empty
SourceProcessed ==
    /\ pc \in {"sources", "write"}
    /\ dem_iter >= 1
    /\ ~BoxEmpty(PixBox(bbox, images[dem_iter]))

\* the source processed last, and its cropped buffer
LastSource == images[dem_iter]
LastPixBox == PixBox(bbox, LastSource)

\* C13: the weights of the source processed last, after erosion with erode
\* length k, are 0 where the weight before erosion is at most k and that
\* weight minus k elsewhere, and none is negative; so they are all 0 when no
\* weight before erosion exceeds k.
C13_ErosionSubtractsK ==
    SourceProcessed =>
      \A raw \in {RawWts(LastSource, LastPixBox)},
         wts \in {LocalWts(LastSource, LastPixBox)}, k \in {opt.erode_len} :
        \A p \in DemPixels(LastPixBox) :
          /\ wts[p] >= 0
          /\ raw[p] <= k => wts[p] = 0
          /\ raw[p] > k => wts[p] = raw[p] - k

\* a source was eroded by 1 that has weights above 1 and weights of 1
C13_PartlyEroded ==
    /\ SourceProcessed
    /\ opt.erode_len = 1
    /\ LET raw == RawWts(LastSource, LastPixBox)
       IN  /\ \E p \in DemPixels(LastPixBox) : raw[p] > 1
           /\ \E p \in DemPixels(LastPixBox) : raw[p] = 1

\* a source with valid pixels was eroded by 1 whose weights are all at most 1
C13_WhollyEroded ==
    /\ SourceProcessed
    /\ opt.erode_len = 1
    /\ LET raw == RawWts(LastSource, LastPixBox)
       IN  /\ \E p \in DemPixels(LastPixBox) : raw[p] = 1
           /\ \A p \in DemPixels(LastPixBox) : raw[p] <= 1

\* every pixel of raster f is no-data
AllNoData(f) == \A q \in Pixels(f.w, f.h) : f.pix[q] = f.nodata

\* two sources of the same size on the same grid, with full overlap
TwoOverlaid ==
    /\ Len(images) = 2
    /\ images[1].ox = images[2].ox /\ images[1].oy = images[2].oy
    /\ images[1].w = images[2].w /\ images[1].h = images[2].h

C14_NoDataSourceSecond ==
    /\ Rasterized /\ TwoOverlaid /\ opt.erode_len = 0
    /\ AllNoData(images[2])
    /\ ~AllNoData(images[1])
    /\ \E p \in DOMAIN tile : contrib[p] # <<>>

----------------------------------------------------------------------------
(* Properties of the blocks of a tile (specification SpecBlocks) *)

\* sequential evaluation: the images a single call of prerasterize on the box b
\* can hold after its first k sources
RECURSIVE FoldOutcomes(_, _)
FoldOutcomes(b, k) ==
    IF k = 0 THEN {Fresh(b)}
    ELSE {Accumulate(b, k, tw, garbage) :
            tw \in FoldOutcomes(b, k - 1), garbage \in {0, 1}}

\* the pixels sequential evaluation can return for the box b
SequentialBlocks(b) == {Returned(tw) : tw \in FoldOutcomes(b, Len(images))}

C15_OneSequentialOutcome ==
    pc = "write" /\ DOMAIN worker # {} =>
      \A b \in DOMAIN dest : \A seq \in SequentialBlocks(b) : dest[b] = seq

----------------------------------------------------------------------------
(* Properties of process_icebridge_run (specification SpecRun) *)

\* the loop over the pairs has ended
PairsAdded == run_pc = "wait"

\* the frame number is in the frame range the command line asked for
Requested(frameNumber) ==
    /\ options.startGiven => frameNumber >= options.startFrame
    /\ options.stopGiven => frameNumber <= options.stopFrame

\* the pairs of adjacent files (i, i+1) with a requested frame number, in order
RequestedPairs ==
    SelectSeq([k \in 1 .. Len(imageFiles) - 1 |-> k - 1],
              LAMBDA j : Requested(imageFiles[j + 1]))

\* the pairs the pool was given, in order
SubmittedPairs == [k \in 1 .. Len(taskHandles) |-> taskHandles[k].i]

\* C16: for N aligned image and camera files, exactly one pair task is given
\* to the pool for each adjacent pair (i, i+1) whose frame number is in the
\* requested range, and for each of the N-1 pairs when neither --start-frame
\* nor --stop-frame is given.
C16_OneTaskPerRequestedPair ==
    PairsAdded /\ ~options.triView =>
      /\ SubmittedPairs = RequestedPairs
      /\ ~options.startGiven /\ ~options.stopGiven /\ Len(imageFiles) > 0 =>
           Len(taskHandles) = Len(imageFiles) - 1

\* With a --stop-frame other than 0, the pairs given to the pool are the
\* requested ones, each once and with the files i and i+1.
C16_StopGivenSubmitsRequested ==
    PairsAdded /\ ~options.triView /\ options.stopGiven /\ options.stopFrame # 0 =>
      /\ SubmittedPairs = RequestedPairs
      /\ \A k \in 1 .. Len(taskHandles) :
           /\ taskHandles[k].imageA = imageFiles[taskHandles[k].i + 1]
           /\ taskHandles[k].imageB = imageFiles[taskHandles[k].i + 2]

\* Without --stop-frame no pair is given to the pool.
C16_NoStopSubmitsNothing ==
    PairsAdded /\ ~options.stopGiven => taskHandles = <<>>

----------------------------------------------------------------------------
(* Properties of the sampling of one source (specification Spec) *)

\* the position in the buffer of the last source of pixel p of the box
LastInPix(p) == InPix(bbox, LastSource, LastPixBox, p[1], p[2])

\* the position of pixel p is not on the grid of the last source's buffer
OffGrid(p) == ~OnGrid(LastPixBox, LastInPix(p)[1], LastInPix(p)[2])

\* the position of pixel p passes the bounds test of the interpolation branch
PassesBoundsTest(p) == IsGood(LastPixBox, LastInPix(p)[1], LastInPix(p)[2])

\* the last source contributed to pixel p
LastContributed(p) ==
    \E k \in 1..Len(contrib[p]) : contrib[p][k].src = dem_iter

\* the four integer-grid positions around the position of pixel p
Surrounding(p) ==
    {Floor(LastInPix(p)[1]), Floor(LastInPix(p)[1]) + 1}
      \X {Floor(LastInPix(p)[2]), Floor(LastInPix(p)[2]) + 1}

\* C17: at a pixel whose position in the source is not on the grid, the
\* source contributes only if the position lies within the bounds of the
\* cropped source (the formula asks for the closed bounds of the code's test,
\* the weakest reading of "strictly within") and the four surrounding grid
\* positions are pixels of the cropped source with positive weight; otherwise
\* the source leaves the pixel as it was.
C17_OffGridNeedsFourPositive ==
    SourceProcessed =>
      \A wts \in {LocalWts(LastSource, LastPixBox)} :
        \A p \in DOMAIN tile :
          OffGrid(p) /\ LastContributed(p) =>
            /\ PassesBoundsTest(p)
            /\ \A q \in Surrounding(p) : q \in DemPixels(LastPixBox) /\ wts[q] > 0

\* Away from the last column and the last row of the cropped source the source
\* contributes off the grid exactly when the four surrounding pixels have
\* positive weight.
C17_InsideNeedsFourPositive ==
    SourceProcessed =>
      \A wts \in {LocalWts(LastSource, LastPixBox)} :
        \A p \in DOMAIN tile :
          (/\ OffGrid(p) /\ PassesBoundsTest(p)
           /\ Surrounding(p) \subseteq DemPixels(LastPixBox)) =>
            (LastContributed(p) <=> \A q \in Surrounding(p) : wts[q] > 0)

\* the weight test of lines 282-283 at pixel p reads a position that is not a
\* pixel of the cropped source: the k-th position tested lies outside it and
\* the weights tested before it are positive
ReadsOutOfBounds(wts, p) ==
    LET i == Floor(LastInPix(p)[1])
        j == Floor(LastInPix(p)[2])
    IN  \E k \in 1..4 :
          /\ Neighbours(i, j)[k] \notin DemPixels(LastPixBox)
          /\ \A m \in 1..(k - 1) : wts[Neighbours(i, j)[m]] > 0

\* C19: every read of the cropped source buffer is in bounds: in the
\* interpolation branch, for every position that passes the bounds test, the
\* pixels (i,j), (i+1,j), (i,j+1), (i+1,j+1) that are read have a column in
\* 0..cols-1 and a row in 0..rows-1.
C19_ReadsInBounds ==
    SourceProcessed =>
      \A wts \in {LocalWts(LastSource, LastPixBox)} :
        \A p \in DOMAIN tile :
          OffGrid(p) /\ PassesBoundsTest(p) => ~ReadsOutOfBounds(wts, p)

\* Where the position is off the grid in both coordinates, or before the last
\* column and the last row, the four pixels are pixels of the cropped source.
C19_InteriorReadsInBounds ==
    SourceProcessed =>
      \A p \in DOMAIN tile :
        (/\ OffGrid(p) /\ PassesBoundsTest(p)
         /\ LastInPix(p)[1] < Sub * (BoxWidth(LastPixBox) - 1)
         /\ LastInPix(p)[2] < Sub * (BoxHeight(LastPixBox) - 1)) =>
          Surrounding(p) \subseteq DemPixels(LastPixBox)

\* C20: in blended mode the accumulator of a pixel is reset to zero only while
\* its accumulated weight is 0: once a source has contributed, the
\* accumulator holds the sum of weight * value of all the contributions so
\* far, none of them discarded.
C20_ResetOnlyAtZeroWeight ==
    (pc = "sources" /\ ~opt.draft_mode) =>
      \A p \in DOMAIN tile :
        weights[p] > 0 => tile[p][1] = SumSeq(ContribWtVals(p))

\* With the no-data value of the sources as output no-data value (negative,
\* and no sum of the model's positive values equals it) no sum is discarded.
C20_NoResetWithoutCollision ==
    (pc = "sources" /\ ~opt.draft_mode /\ ~opt.has_out_nodata) =>
      \A p \in DOMAIN tile :
        weights[p] > 0 => tile[p][1] = SumSeq(ContribWtVals(p))

----------------------------------------------------------------------------
(* Properties of the block size (specification SpecBlockSize) *)

\* block_size has been computed
BlockSized == pc = "blocksized"

\* x is a power of two
IsPowerOfTwo(x) == \E k \in 0..30 : x = Pow2(k)

\* x >= 4 * n, for an int x and n in 0..MaxInt
AtLeastFourTimes(x, n) == x \div 4 >= n

\* C18: for all erode and blending lengths of at least 0, the block side is a
\* power of two, at least 256 and at least 4 * (erode_len + blending_len),
\* and it is the smallest power of two with both bounds.
C18_BlockSizeIsSmallestPowerOfTwo ==
    BlockSized =>
      /\ IsPowerOfTwo(block_size)
      /\ block_size >= MinBlockSize
      /\ AtLeastFourTimes(block_size, opt.erode_len + opt.blending_len)
      /\ \/ block_size = MinBlockSize
         \/ ~AtLeastFourTimes(block_size \div 2, opt.erode_len + opt.blending_len)

\* The same, for lengths whose sum is below 2^27.
C18_HoldsBelowTwoTo27 ==
    BlockSized /\ opt.erode_len + opt.blending_len < Pow2(27) =>
      /\ IsPowerOfTwo(block_size)
      /\ block_size >= MinBlockSize
      /\ AtLeastFourTimes(block_size, opt.erode_len + opt.blending_len)
      /\ \/ block_size = MinBlockSize
         \/ ~AtLeastFourTimes(block_size \div 2, opt.erode_len + opt.blending_len)

----------------------------------------------------------------------------
(* The same mosaic rasterized in different boxes *)

\* Beside sources of MaxDim pixels, sources of BigDim pixels are mosaicked:
\* wide enough to have pixels further from their border than the context of
\* erode_len + blending_len + pixel_buffer + 1 pixels that line 206 adds
\* around a box.
BigDim == 7

\* the boxes of the tiles of the mosaic for the tile size ts (lines 629-635)
\* that hold a pixel
TileBoxes(ts) ==
    {b \in {TileBox(id, NumTiles(cols, ts), NumTiles(rows, ts), ts, cols, rows) :
              id \in 0 .. NumTiles(cols, ts) * NumTiles(rows, ts) - 1} :
       ~BoxEmpty(b)}

\* lines 179-322: prerasterize is called on a box of the mosaic: first on the
\* box of the whole mosaic (the default tile size), then on a tile box of
\* some tile size from 1 to MaxTileSize
RasterizeBox ==
    /\ pc = "partition"
    /\ Cardinality(DOMAIN dest) < 2
    /\ \E ts \in (IF dest = NoImage THEN {DefaultTileSize} ELSE 1..MaxTileSize) :
         \E b \in TileBoxes(ts) \ DOMAIN dest :
           \E returned \in SequentialBlocks(b) :
             dest' = dest @@ (b :> returned)
    /\ UNCHANGED <<pc, opt, dem_files, images, out_georef, cols, rows, bbox,
                   dem_iter, tile, weights, contrib, oob, opened, log,
                   exit_status, num_tiles_x, num_tiles_y, tile_id, end_tile,
                   written, pending, worker, buf, block_size>>
    /\ UNCHANGED rvars

\* The specification of the boxes starts as the compositor specification
\* does, in blended mode without erosion, with two square sources of MaxDim or
\* of BigDim pixels on the same grid, the second one half a source to the
\* right of the first.
InitBoxes ==
    \E w \in {MaxDim, BigDim} :
      \E files \in RasterLists(2, w, w, Sub * (w \div 2), 0) :
        /\ opt = ValidOptions(FALSE, 0, FALSE)
        /\ dem_files = files
        /\ images = files
        /\ out_georef = [proj |-> "A", ox |-> files[1].ox, oy |-> files[1].oy]
        /\ dem_iter = 2
        /\ opened = <<1, 1, 1, 2>>
        /\ pc = "extent"
        /\ cols = 0 /\ rows = 0
        /\ bbox = NoBox /\ tile = NoImage /\ weights = NoImage /\ contrib = NoImage
        /\ oob = FALSE
        /\ log = <<>> /\ exit_status = 0 - 1
        /\ num_tiles_x = 0 /\ num_tiles_y = 0
        /\ tile_id = 0 /\ end_tile = 0
        /\ written = NoImage
        /\ pending = {} /\ worker = <<>> /\ buf = <<>> /\ dest = NoImage
        /\ block_size = 0
        /\ options = NoOptions /\ imageFiles = <<>> /\ frame_i = 0
        /\ taskHandles = <<>> /\ run_pc = "idle"
        /\ pool = "none" /\ ready = {} /\ notReady = 0 /\ task = 0

NextBoxes ==
    \/ ComputeExtent
    \/ RasterizeBox

SpecBoxes == InitBoxes /\ [][NextBoxes]_vars

----------------------------------------------------------------------------
(* Properties of the boxes (specification SpecBoxes) *)

\* the mosaic pixels of box b
MosaicPixels(b) == (b.minx .. b.maxx - 1) \X (b.miny .. b.maxy - 1)

\* the value prerasterize returned for the mosaic pixel q in box b
ValueIn(b, q) == dest[b][<<q[1] - b.minx, q[2] - b.miny>>]

\* C21: the value of a mosaic pixel does not depend on the box it is
\* evaluated in: two boxes that hold the same mosaic pixel get the same value
\* for it from prerasterize.
C21_ValueIndependentOfBox ==
    \A a \in DOMAIN dest, b \in DOMAIN dest :
      \A q \in MosaicPixels(a) \cap MosaicPixels(b) :
        RatEq(ValueIn(a, q), ValueIn(b, q))

\* Sources of at most MaxDim pixels a side have no weight above the context
\* of a box (erode_len + blending_len + pixel_buffer + 1 = 2 pixels): for them
\* two boxes get the same value for a pixel they share.
C21_SmallSourcesAgree ==
    (\A k \in 1..Len(images) : images[k].w <= MaxDim /\ images[k].h <= MaxDim)
      => \A a \in DOMAIN dest, b \in DOMAIN dest :
           \A q \in MosaicPixels(a) \cap MosaicPixels(b) :
             RatEq(ValueIn(a, q), ValueIn(b, q))

----------------------------------------------------------------------------
(* Properties of the wait for the tasks and of the end of the pool
   (specification SpecWait) *)

\* the script is in the loop of lines 347-364, or has left it
InLoop == run_pc \in {"wait", "count"}
LoopExited == run_pc \in {"cleanup", "done"}

\* every task given to the pool has finished
AllFinished == ready = 1 .. Len(taskHandles)

\* the steps of the pool: close, then terminate, then join
PoolSteps == {<<"RUN", "CLOSE">>, <<"CLOSE", "TERMINATE">>, <<"TERMINATE", "joined">>}

C22_QuitWhilePending ==
    /\ run_pc = "done" /\ pool = "joined"
    /\ options.interactive
    /\ notReady > 0 /\ ~AllFinished

====
